---- MODULE Spec2Model ----
(***************************************************************************)
(* Model of src/price_client.py: get_hyperliquid_price, its retry loop,    *)
(* its response classification and the process-wide price cache            *)
(* _last_known_prices.                                                     *)
(***************************************************************************)
EXTENDS Integers, Sequences, FiniteSets, TLC

\* ------------------------------------------------------------------------
\* Program constants
\* ------------------------------------------------------------------------
MAX_RETRIES == 3

\* ------------------------------------------------------------------------
\* Bounds of the model
\* ------------------------------------------------------------------------
\* longest Retry-After header value that is enumerated
MaxHdrLen == 2

\* callers of get_hyperliquid_price and the symbols they ask for
Threads == {"t1", "t2"}
Symbols == {"BTC", "ETH"}

\* ------------------------------------------------------------------------
\* Python values that can sit in the "price" field of a parsed payload.
\* t is the Python type, cls the value class, v the value (for nan: 0; for
\* inf / an int beyond the float range: its sign).
\* ------------------------------------------------------------------------
PyVal(t, cls, v) == [t |-> t, cls |-> cls, v |-> v]
PyNone == PyVal("NoneType", "none", 0)
PyStr == PyVal("str", "text", 0)
PyNaN == PyVal("float", "nan", 0)
PyInf == PyVal("float", "inf", 1)
PyNegInf == PyVal("float", "inf", 0 - 1)
PyHugeInt == PyVal("int", "huge", 1)
PyBool(b) == PyVal("bool", "finite", IF b THEN 1 ELSE 0)
PyInt(n) == PyVal("int", "finite", n)
PyFloat(n) == PyVal("float", "finite", n)

FiniteVals == {0 - 1, 0, 1, 2}
PriceVals ==
    {PyNone, PyStr, PyNaN, PyInf, PyNegInf, PyHugeInt, PyBool(TRUE), PyBool(FALSE)}
        \cup {PyInt(n) : n \in FiniteVals} \cup {PyFloat(n) : n \in FiniteVals}

\* isinstance(price, (int, float)); bool is a subclass of int
IsIntOrFloat(p) == p.t \in {"int", "float", "bool"}

\* price <= 0 ; every comparison with nan is False
LeqZero(p) == IF p.cls = "nan" THEN FALSE ELSE p.v <= 0

\* float(price) raises OverflowError for an int beyond the float range
FloatOverflows(p) == p.t = "int" /\ p.cls = "huge"
ToFloat(p) == PyVal("float", p.cls, p.v)

\* ------------------------------------------------------------------------
\* Retry-After header values: absent, or a string over a small alphabet.
\* "sup2" stands for the character U+00B2 (superscript two).
\* ------------------------------------------------------------------------
Chars == {"0", "3", "-", "sup2"}
AsciiDigits == {"0", "3"}
RECURSIVE StringsOfLen(_)
StringsOfLen(n) ==
    IF n = 0 THEN {<<>>}
    ELSE {Append(s, c) : s \in StringsOfLen(n - 1), c \in Chars}
Strings == UNION {StringsOfLen(n) : n \in 0..MaxHdrLen}
NoHeader == [present |-> FALSE, val |-> <<>>]
Header(s) == [present |-> TRUE, val |-> s]
Headers == {NoHeader} \cup {Header(s) : s \in Strings}

\* str.isdigit(): non-empty and every character has the Unicode property
\* Numeric_Type=Digit or Decimal; U+00B2 has it
IsDigit(s) == Len(s) > 0 /\ \A i \in 1..Len(s) : s[i] \in AsciiDigits \cup {"sup2"}

\* int(s): accepts decimal digits only, ValueError otherwise
DigitVal(c) == IF c = "3" THEN 3 ELSE 0
IntParses(s) == Len(s) > 0 /\ \A i \in 1..Len(s) : s[i] \in AsciiDigits
RECURSIVE IntOf(_)
IntOf(s) ==
    IF Len(s) = 0 THEN 0
    ELSE 10 * IntOf(SubSeq(s, 1, Len(s) - 1)) + DigitVal(s[Len(s)])

\* Optional[int]
NoInt == [some |-> FALSE, n |-> 0]
SomeInt(n) == [some |-> TRUE, n |-> n]

\* ------------------------------------------------------------------------
\* What requests.get can produce: a transport exception or a response with
\* a status code, headers and a body.
\* ------------------------------------------------------------------------
NoBody == [kind |-> "none", hasPrice |-> FALSE, price |-> PyNone]
BadJson == [kind |-> "badjson", hasPrice |-> FALSE, price |-> PyNone]
NonObject == [kind |-> "nonobject", hasPrice |-> FALSE, price |-> PyNone]
EmptyObject == [kind |-> "object", hasPrice |-> FALSE, price |-> PyNone]
ObjectWith(p) == [kind |-> "object", hasPrice |-> TRUE, price |-> p]
Bodies == {BadJson, NonObject, EmptyObject} \cup {ObjectWith(p) : p \in PriceVals}

Statuses == {99, 100, 200, 201, 302, 399, 400, 404, 429, 499, 500, 599, 600}
Raised(e) == [tag |-> e, status_code |-> 0, headers |-> NoHeader, body |-> NoBody]
Http(s, h, b) == [tag |-> "response", status_code |-> s, headers |-> h, body |-> b]
Responses ==
    {Raised("Timeout"), Raised("RequestException")}
        \cup {Http(s, NoHeader, NoBody) : s \in Statuses \ {200, 429}}
        \cup {Http(429, h, NoBody) : h \in Headers}
        \cup {Http(200, NoHeader, b) : b \in Bodies}

\* data.get("price"): None when the key is absent
GetPrice(body) == IF body.hasPrice THEN body.price ELSE PyNone

\* ------------------------------------------------------------------------
\* Pieces of get_hyperliquid_price
\* ------------------------------------------------------------------------
\* retry_seconds = int(retry_after) if retry_after and retry_after.isdigit()
\*                 else None
RetryAfterTested(h) == h.present /\ Len(h.val) > 0 /\ IsDigit(h.val)
RetrySecondsRaises(h) == RetryAfterTested(h) /\ ~IntParses(h.val)
RetrySeconds(h) == IF RetryAfterTested(h) THEN SomeInt(IntOf(h.val)) ELSE NoInt

IsRateLimit(status) == status = 429
IsOk(status) == status = 200
\* mutation: the client errors are taken for server errors
IsServerError_from400(status) == 400 <= status /\ status < 600
IsServerError(status) == 500 <= status /\ status < 600
\* mutation: the range starts after 429
IsClientError_above429(status) == 429 < status /\ status < 500
IsClientError(status) == 400 <= status /\ status < 500

\* mutation: the 400..499 test comes before the 429 test
Branch_clientFirst(r) ==
    IF r.tag # "response" THEN "NetworkError"
    ELSE IF IsClientError(r.status_code) THEN "ClientError"
    ELSE IF IsRateLimit(r.status_code) THEN "RateLimited"
    ELSE IF IsOk(r.status_code) THEN "Ok"
    ELSE IF IsServerError(r.status_code) THEN "ServerError"
    ELSE "UnexpectedStatus"

\* the branch of the loop body that handles what requests.get produced: the
\* except clauses for an exception, else the first status test that matches
Branch(r) ==
    IF r.tag # "response" THEN "NetworkError"
    ELSE IF IsRateLimit(r.status_code) THEN "RateLimited"
    ELSE IF IsOk(r.status_code) THEN "Ok"
    ELSE IF IsServerError(r.status_code) THEN "ServerError"
    ELSE IF IsClientError(r.status_code) THEN "ClientError"
    ELSE "UnexpectedStatus"

\* if price is None
PriceMissing(price) == price = PyNone

\* a symbol that is not a key of _last_known_prices
Absent == PyVal("absent", "none", 0)

\* if use_fallback and symbol in _last_known_prices
InCache(cache, s) == cache[s] # Absent
\* mutation: use_fallback is not looked at
FallbackApplies_anyMode(fb, s, cache) == InCache(cache, s)
FallbackApplies(fb, s, cache) == fb /\ InCache(cache, s)

\* mutation: an entry that exists is not overwritten
CacheStore_keepFirst(cache, s, v) ==
    IF cache[s] = Absent THEN [cache EXCEPT ![s] = v] ELSE cache

\* mutation: the dict is rebound to a new one holding the one entry
CacheStore_evictOthers(cache, s, v) == [k \in DOMAIN cache |-> IF k = s THEN v ELSE Absent]

\* mutation: one slot shared by all symbols
CacheStore_allKeys(cache, s, v) == [k \in DOMAIN cache |-> v]

\* _last_known_prices[symbol] = price_float
CacheStore(cache, s, v) == [cache EXCEPT ![s] = v]

\* mutation: the last retry is never made
MayRetry_oneLess(att) == att < MAX_RETRIES - 1

\* if attempt < MAX_RETRIES
MayRetry(att) == att < MAX_RETRIES

\* mutation: the delay does not grow with the attempt number
WaitTime_constant(att) == 5

\* wait_time = attempt * 0.5, in tenths of a second
WaitTime(att) == att * 5

\* ------------------------------------------------------------------------
\* How a call ends
\* ------------------------------------------------------------------------
NoException == [cls |-> "None", at |-> 0]
Exception(c, att) == [cls |-> c, at |-> att]

NoOutcome ==
    [kind |-> "none", exc |-> "", msg |-> "", value |-> PyNone,
     retry_after |-> NoInt, cause |-> NoException, via |-> ""]
Returns(v, via) ==
    [kind |-> "return", exc |-> "", msg |-> "", value |-> v,
     retry_after |-> NoInt, cause |-> NoException, via |-> via]
Raises(e, m) ==
    [kind |-> "raise", exc |-> e, msg |-> m, value |-> PyNone,
     retry_after |-> NoInt, cause |-> NoException, via |-> ""]
RaisesRateLimit(ra) ==
    [kind |-> "raise", exc |-> "RateLimitError", msg |-> "Rate limited",
     value |-> PyNone, retry_after |-> ra, cause |-> NoException, via |-> ""]
RaisesExhausted(c) ==
    [kind |-> "raise", exc |-> "RetryExhaustedError", msg |-> "Failed to get price",
     value |-> PyNone, retry_after |-> NoInt, cause |-> c, via |-> ""]

\* ------------------------------------------------------------------------
\* State
\* ------------------------------------------------------------------------
VARIABLES
    last_known_prices,  \* the module-level cache: symbol -> float, or Absent
    pc,                 \* where each caller is in get_hyperliquid_price
    symbol,             \* argument symbol of the running call
    use_fallback,       \* argument use_fallback of the running call
    attempt,            \* loop variable
    last_exception,     \* local last_exception
    responses,          \* what requests.get produced, attempt by attempt
    sleeps,             \* the arguments of the time.sleep calls of the call
    outcome,            \* how the call ended
    fallback_price,     \* local fallback_price
    last_success        \* symbol -> price of the latest Success, or Absent

vars ==
    <<last_known_prices, pc, symbol, use_fallback, attempt, last_exception,
      responses, sleeps, outcome, fallback_price, last_success>>

locals == <<symbol, use_fallback, attempt, last_exception>>

Init ==
    /\ last_known_prices = [s \in Symbols |-> Absent]
    /\ pc = [t \in Threads |-> "idle"]
    /\ symbol = [t \in Threads |-> "BTC"]
    /\ use_fallback = [t \in Threads |-> FALSE]
    /\ attempt = [t \in Threads |-> 0]
    /\ last_exception = [t \in Threads |-> NoException]
    /\ responses = [t \in Threads |-> <<>>]
    /\ sleeps = [t \in Threads |-> <<>>]
    /\ outcome = [t \in Threads |-> NoOutcome]
    /\ fallback_price = [t \in Threads |-> Absent]
    /\ last_success = [s \in Symbols |-> Absent]

\* get_hyperliquid_price(s, fb) is entered: last_exception = None and the
\* loop starts with attempt = 1
Call(t, s, fb) ==
    /\ pc[t] = "idle"
    /\ pc' = [pc EXCEPT ![t] = "request"]
    /\ symbol' = [symbol EXCEPT ![t] = s]
    /\ use_fallback' = [use_fallback EXCEPT ![t] = fb]
    /\ attempt' = [attempt EXCEPT ![t] = 1]
    /\ last_exception' = [last_exception EXCEPT ![t] = NoException]
    /\ responses' = [responses EXCEPT ![t] = <<>>]
    /\ sleeps' = [sleeps EXCEPT ![t] = <<>>]
    /\ outcome' = [outcome EXCEPT ![t] = NoOutcome]
    /\ fallback_price' = [fallback_price EXCEPT ![t] = Absent]
    /\ UNCHANGED <<last_known_prices, last_success>>

\* the call ends: raise or return
Finish(t, o) ==
    /\ pc' = [pc EXCEPT ![t] = "done"]
    /\ outcome' = [outcome EXCEPT ![t] = o]

\* mutation: the server-error branch does not set last_exception before break
RetryOrExhaust_staleCause(t, e, sets_before) ==
    IF MayRetry(attempt[t])
    THEN /\ pc' = [pc EXCEPT ![t] = "sleeping"]
         /\ sleeps' = [sleeps EXCEPT ![t] = Append(@, WaitTime(attempt[t]))]
         /\ last_exception' =
                IF sets_before THEN [last_exception EXCEPT ![t] = e]
                ELSE last_exception
         /\ UNCHANGED outcome
    ELSE /\ last_exception' =
                IF sets_before THEN [last_exception EXCEPT ![t] = e]
                ELSE last_exception
         /\ Finish(t, RaisesExhausted(last_exception'[t]))
         /\ UNCHANGED sleeps

\* a retryable failure with exception e: sleep and continue, or break and
\* raise RetryExhaustedError from last_exception
RetryOrExhaust(t, e, sets_before) ==
    IF MayRetry(attempt[t])
    THEN /\ pc' = [pc EXCEPT ![t] = "sleeping"]
         /\ sleeps' = [sleeps EXCEPT ![t] = Append(@, WaitTime(attempt[t]))]
         /\ last_exception' =
                IF sets_before THEN [last_exception EXCEPT ![t] = e]
                ELSE last_exception
         /\ UNCHANGED outcome
    ELSE /\ last_exception' = [last_exception EXCEPT ![t] = e]
         /\ Finish(t, RaisesExhausted(e))
         /\ UNCHANGED sleeps

\* the call ends without touching anything else
End(t, o) ==
    /\ Finish(t, o)
    /\ UNCHANGED <<sleeps, last_exception, last_known_prices, last_success,
                   fallback_price>>

\* status 429: parse Retry-After and raise RateLimitError
OnRateLimit(t, r) ==
    IF RetrySecondsRaises(r.headers)
    THEN End(t, Raises("ValueError", "invalid literal for int()"))
    ELSE End(t, RaisesRateLimit(RetrySeconds(r.headers)))

\* Valid price - update cache and return
OnValidPrice(t, price) ==
    IF FloatOverflows(price)
    THEN End(t, Raises("OverflowError", "int too large to convert to float"))
    ELSE /\ last_known_prices' = CacheStore(last_known_prices, symbol[t], ToFloat(price))
         /\ Finish(t, Returns(ToFloat(price), "success"))
         /\ last_success' = [last_success EXCEPT ![symbol[t]] = outcome'[t].value]
         /\ UNCHANGED <<sleeps, last_exception, fallback_price>>

\* status 200: parse the body, validate the price
OnOk(t, r) ==
    IF r.body.kind = "badjson"
    THEN End(t, Raises("InvalidPriceDataError", "Invalid JSON response"))
    ELSE IF r.body.kind # "object"
    THEN End(t, Raises("AttributeError", "object has no attribute 'get'"))
    ELSE IF PriceMissing(GetPrice(r.body))
    THEN IF FallbackApplies(use_fallback[t], symbol[t], last_known_prices)
         THEN /\ pc' = [pc EXCEPT ![t] = "fallback_read"]
              /\ UNCHANGED <<outcome, sleeps, last_exception, last_known_prices,
                             last_success, fallback_price>>
         ELSE End(t, Raises("InvalidPriceDataError", "Missing price field"))
    ELSE IF ~IsIntOrFloat(GetPrice(r.body))
    THEN End(t, Raises("InvalidPriceDataError", "Price not numeric"))
    ELSE IF LeqZero(GetPrice(r.body))
    THEN End(t, Raises("InvalidPriceDataError", "Invalid price value"))
    ELSE OnValidPrice(t, GetPrice(r.body))

\* a retryable failure: sleep and continue, or break out of the loop and
\* raise RetryExhaustedError from last_exception
OnRetryable(t, r) ==
    /\ UNCHANGED <<last_known_prices, last_success, fallback_price>>
    /\ IF r.tag = "response"
       THEN RetryOrExhaust(t, Exception("HyperLiquidAPIError", attempt[t]), FALSE)
       ELSE RetryOrExhaust(t, Exception(r.tag, attempt[t]), TRUE)

\* one pass through the body of the for loop: requests.get and the handling
\* of what it produced
Attempt(t, r) ==
    /\ pc[t] = "request"
    /\ responses' = [responses EXCEPT ![t] = Append(@, r)]
    /\ UNCHANGED <<symbol, use_fallback, attempt>>
    /\ CASE Branch(r) \in {"NetworkError", "ServerError"} -> OnRetryable(t, r)
         [] Branch(r) = "RateLimited" -> OnRateLimit(t, r)
         [] Branch(r) = "Ok" -> OnOk(t, r)
         [] Branch(r) = "ClientError" ->
                End(t, Raises("HyperLiquidAPIError", "Client error"))
         [] OTHER -> End(t, Raises("HyperLiquidAPIError", "Unexpected status code"))

\* time.sleep returns and the loop continues: the next attempt, or, when
\* range(1, MAX_RETRIES + 1) is used up, the raise after the loop
Wake(t) ==
    /\ pc[t] = "sleeping"
    /\ IF attempt[t] < MAX_RETRIES
       THEN /\ pc' = [pc EXCEPT ![t] = "request"]
            /\ attempt' = [attempt EXCEPT ![t] = @ + 1]
            /\ UNCHANGED outcome
       ELSE /\ Finish(t, RaisesExhausted(last_exception[t]))
            /\ UNCHANGED attempt
    /\ UNCHANGED <<last_known_prices, symbol, use_fallback, last_exception,
                   responses, sleeps, fallback_price, last_success>>

\* fallback_price = _last_known_prices[symbol]; return fallback_price
FallbackRead(t) ==
    /\ pc[t] = "fallback_read"
    /\ IF InCache(last_known_prices, symbol[t])
       THEN /\ fallback_price' =
                   [fallback_price EXCEPT ![t] = last_known_prices[symbol[t]]]
            /\ Finish(t, Returns(last_known_prices[symbol[t]], "fallback"))
       ELSE /\ Finish(t, Raises("KeyError", symbol[t]))
            /\ UNCHANGED fallback_price
    /\ UNCHANGED <<last_known_prices, symbol, use_fallback, attempt,
                   last_exception, responses, sleeps, last_success>>

\* the caller has seen the result; the frame of the call is gone
Leave(t) ==
    /\ pc[t] = "done"
    /\ pc' = [pc EXCEPT ![t] = "idle"]
    /\ symbol' = [symbol EXCEPT ![t] = "BTC"]
    /\ use_fallback' = [use_fallback EXCEPT ![t] = FALSE]
    /\ attempt' = [attempt EXCEPT ![t] = 0]
    /\ last_exception' = [last_exception EXCEPT ![t] = NoException]
    /\ responses' = [responses EXCEPT ![t] = <<>>]
    /\ sleeps' = [sleeps EXCEPT ![t] = <<>>]
    /\ outcome' = [outcome EXCEPT ![t] = NoOutcome]
    /\ fallback_price' = [fallback_price EXCEPT ![t] = Absent]
    /\ UNCHANGED <<last_known_prices, last_success>>

\* calls are made one after the other
NoCallRunning == \A t \in Threads : pc[t] = "idle"

CallStep == \E t \in Threads, s \in Symbols, fb \in BOOLEAN : NoCallRunning /\ Call(t, s, fb)
AttemptStep == \E t \in Threads, r \in Responses : Attempt(t, r)
WakeStep == \E t \in Threads : Wake(t)
FallbackReadStep == \E t \in Threads : FallbackRead(t)
LeaveStep == \E t \in Threads : Leave(t)

Next ==
    \/ CallStep
    \/ AttemptStep
    \/ WakeStep
    \/ FallbackReadStep
    \/ LeaveStep

Spec == Init /\ [][Next]_vars

\* Every request.get returns or raises (it has a timeout), every time.sleep
\* returns, and a thread that is in the function keeps running
Fairness ==
    \A t \in Threads :
        /\ WF_vars(\E r \in Responses : Attempt(t, r))
        /\ WF_vars(Wake(t))
        /\ WF_vars(FallbackRead(t))

FairSpec == Spec /\ Fairness

\* ------------------------------------------------------------------------
\* Concurrent callers: get_hyperliquid_price takes no lock, so calls of
\* different threads interleave between any two accesses to
\* _last_known_prices (the membership test, the read, the item assignment).
\* The responses are a selection: one of each kind of outcome, two prices.
\* ------------------------------------------------------------------------
ConcResponses ==
    {Raised("Timeout"),
     Http(500, NoHeader, NoBody), Http(404, NoHeader, NoBody), Http(302, NoHeader, NoBody),
     Http(429, NoHeader, NoBody),
     Http(200, NoHeader, EmptyObject),
     Http(200, NoHeader, ObjectWith(PyInt(1))),
     Http(200, NoHeader, ObjectWith(PyFloat(2)))}

CallConc == \E t \in Threads, s \in Symbols, fb \in BOOLEAN : Call(t, s, fb)
AttemptConc == \E t \in Threads, r \in ConcResponses : Attempt(t, r)

NextConc ==
    \/ CallConc
    \/ AttemptConc
    \/ WakeStep
    \/ FallbackReadStep
    \/ LeaveStep

SpecConc == Init /\ [][NextConc]_vars

\* ------------------------------------------------------------------------
\* Types
\* ------------------------------------------------------------------------
TypeOK ==
    /\ pc \in [Threads -> {"idle", "request", "sleeping", "fallback_read", "done"}]
    /\ \A t \in Threads : attempt[t] \in 0..MAX_RETRIES
    /\ \A t \in Threads : Len(responses[t]) <= MAX_RETRIES
    /\ \A s \in Symbols : last_known_prices[s] = Absent \/ last_known_prices[s].t = "float"

\* ------------------------------------------------------------------------
\* Vocabulary of the properties
\* ------------------------------------------------------------------------
Done(t) == pc[t] = "done"
Requests(t) == Len(responses[t])
SleepCalls(t) == Len(sleeps[t])
LastResponse(t) == responses[t][Len(responses[t])]

\* a retryable attempt: status 500..599, Timeout or another RequestException
Retryable(r) ==
    \/ r.tag \in {"Timeout", "RequestException"}
    \/ r.tag = "response" /\ r.status_code \in 500..599
AllRetryable(t) == \A i \in 1..Requests(t) : Retryable(responses[t][i])
RetryableBefore(t, k) == \A i \in 1..(k - 1) : Retryable(responses[t][i])

Is429(r) == r.tag = "response" /\ r.status_code = 429
Is200(r) == r.tag = "response" /\ r.status_code = 200
MissingPrice(r) == Is200(r) /\ r.body = EmptyObject

RaisedError(t, e) == outcome[t].kind = "raise" /\ outcome[t].exc = e
Returned(t) == outcome[t].kind = "return"

\* C1: a call in which every attempt was retryable has ended only after
\* exactly MAX_RETRIES requests and MAX_RETRIES - 1 sleeps, by raising
\* RetryExhaustedError; and while it runs it never issues more requests
\* than that.
C1_RetryableExhausts ==
    \A t \in Threads :
        /\ Requests(t) <= MAX_RETRIES
        /\ (Done(t) /\ AllRetryable(t)) =>
              /\ Requests(t) = MAX_RETRIES
              /\ SleepCalls(t) = MAX_RETRIES - 1
              /\ RaisedError(t, "RetryExhaustedError")

C1_Witness ==
    \E t \in Threads :
        /\ Done(t) /\ AllRetryable(t)
        /\ Requests(t) = MAX_RETRIES
        /\ responses[t][1].tag = "Timeout"
        /\ responses[t][2].tag = "RequestException"
        /\ responses[t][3].tag = "response"
        /\ RaisedError(t, "RetryExhaustedError")

\* C2 (as claimed): wherever a 429 sits among the responses of a call, it is
\* the last one, the call has ended with RateLimitError, and only the sleeps
\* of the earlier attempts were made.
C2_RateLimitNeverRetried ==
    \A t \in Threads : \A i \in 1..Requests(t) :
        Is429(responses[t][i]) =>
            /\ i = Requests(t)
            /\ Done(t)
            /\ RaisedError(t, "RateLimitError")
            /\ SleepCalls(t) = i - 1

\* C3 (as claimed): every returned value is a finite, strictly positive
\* float.
FinitePositiveFloat(v) == v.t = "float" /\ v.cls = "finite" /\ v.v > 0
C3_ReturnedPriceValid ==
    \A t \in Threads : (Done(t) /\ Returned(t)) => FinitePositiveFloat(outcome[t].value)

\* C4: a call with use_fallback = True that meets a 200 response without a
\* price field, after a Success for its symbol, returns the price of the
\* most recent Success for that symbol.
C4_FallbackRoundTrip ==
    \A t \in Threads :
        (/\ Done(t)
         /\ use_fallback[t]
         /\ MissingPrice(LastResponse(t))
         /\ last_success[symbol[t]] # Absent)
        => /\ Returned(t)
           /\ outcome[t].value = last_success[symbol[t]]

C4_Witness ==
    \E t \in Threads :
        /\ Done(t) /\ use_fallback[t] /\ MissingPrice(LastResponse(t))
        /\ symbol[t] = "ETH"
        /\ last_success["ETH"] = PyFloat(2)
        /\ last_success["BTC"] = PyFloat(1)
        /\ outcome[t] = Returns(PyFloat(2), "fallback")

\* C5: a 200 response without a price field raises InvalidPriceDataError
\* when use_fallback is False or no earlier call for the symbol ended in
\* Success; nothing is returned.
C5_MissingPriceRaises ==
    \A t \in Threads :
        (/\ Done(t)
         /\ MissingPrice(LastResponse(t))
         /\ (~use_fallback[t] \/ last_success[symbol[t]] = Absent))
        => /\ RaisedError(t, "InvalidPriceDataError")
           /\ outcome[t].msg = "Missing price field"

C5_Witness ==
    \E t \in Threads :
        /\ Done(t) /\ MissingPrice(LastResponse(t))
        /\ ~use_fallback[t]
        /\ last_success[symbol[t]] # Absent
        /\ RaisedError(t, "InvalidPriceDataError")

C5_WitnessEmptyCache ==
    \E t \in Threads :
        /\ Done(t) /\ MissingPrice(LastResponse(t))
        /\ use_fallback[t]
        /\ last_success[symbol[t]] = Absent
        /\ \E s \in Symbols : last_success[s] # Absent
        /\ RaisedError(t, "InvalidPriceDataError")

\* C6 (as claimed): a 200 response whose price field is present but not
\* numeric (null included), numeric but <= 0, or whose body does not parse,
\* raises InvalidPriceDataError whatever use_fallback and the cache are.
PresentNotNumeric(b) == b.kind = "object" /\ b.hasPrice /\ b.price.t \in {"NoneType", "str"}
PresentNotPositive(b) ==
    /\ b.kind = "object" /\ b.hasPrice
    /\ b.price.t \in {"int", "float", "bool"}
    /\ b.price.cls # "nan" /\ b.price.v <= 0
NeverMasked(r) ==
    Is200(r) /\ (r.body = BadJson \/ PresentNotNumeric(r.body) \/ PresentNotPositive(r.body))
C6_CacheNeverMasks ==
    \A t \in Threads :
        (Done(t) /\ NeverMasked(LastResponse(t))) => RaisedError(t, "InvalidPriceDataError")

\* C7: a response that is a client error (400..499 except 429), an
\* unexpected status (not 200, not 429, not 400..599) or a 200 with an
\* invalid payload that the fallback does not recover is the last response
\* of its call: the call has ended with the matching error and made only the
\* sleeps of the earlier attempts.
ClientErrorStatus(r) ==
    r.tag = "response" /\ r.status_code \in 400..499 /\ r.status_code # 429
UnexpectedStatus(r) ==
    r.tag = "response" /\ r.status_code \notin ({200, 429} \cup (400..599))
NoPriceValue(b) == b.kind = "object" /\ (~b.hasPrice \/ b.price = PyNone)
InvalidPayload(r) ==
    Is200(r) /\ (r.body = BadJson \/ NoPriceValue(r.body) \/ PresentNotNumeric(r.body)
                    \/ PresentNotPositive(r.body))
RecoveredByFallback(t, r) ==
    Is200(r) /\ NoPriceValue(r.body) /\ use_fallback[t] /\ last_success[symbol[t]] # Absent
FailFastError(t, r) ==
    IF ClientErrorStatus(r) THEN Raises("HyperLiquidAPIError", "Client error")
    ELSE IF UnexpectedStatus(r) THEN Raises("HyperLiquidAPIError", "Unexpected status code")
    ELSE Raises("InvalidPriceDataError", outcome[t].msg)
FailFast(t, r) ==
    \/ ClientErrorStatus(r)
    \/ UnexpectedStatus(r)
    \/ InvalidPayload(r) /\ ~RecoveredByFallback(t, r)
PositiveNumeric(p) == p.t \in {"int", "float"} /\ p.cls # "nan" /\ p.v > 0
C8_RecoveryWithinBudget ==
    \A t \in Threads :
        (/\ Done(t)
         /\ RetryableBefore(t, Requests(t))
         /\ Is200(LastResponse(t))
         /\ LastResponse(t).body.kind = "object"
         /\ LastResponse(t).body.hasPrice
         /\ PositiveNumeric(LastResponse(t).body.price))
        => /\ Returned(t)
           /\ outcome[t].value = ToFloat(LastResponse(t).body.price)
           /\ SleepCalls(t) = Requests(t) - 1
           /\ last_known_prices[symbol[t]] = ToFloat(LastResponse(t).body.price)

\* C9 (as claimed): a call that has ended has returned a price or raised one
\* of the errors of the client: RateLimitError, InvalidPriceDataError,
\* RetryExhaustedError or HyperLiquidAPIError.
TypedErrors ==
    {"RateLimitError", "InvalidPriceDataError", "RetryExhaustedError", "HyperLiquidAPIError"}
C9_OnlyTypedErrors ==
    \A t \in Threads :
        Done(t) => (Returned(t) \/ (outcome[t].kind = "raise" /\ outcome[t].exc \in TypedErrors))

\* C10 (as claimed): the RateLimitError of a 429 carries the integer value
\* of Retry-After when the header is a non-empty string of decimal digits,
\* and None for every other header value and for a missing header.
ValidNonNegativeInteger(h) ==
    h.present /\ Len(h.val) > 0 /\ \A i \in 1..Len(h.val) : h.val[i] \in {"0", "3"}
ExpectedRetryAfter(h) == IF ValidNonNegativeInteger(h) THEN SomeInt(IntOf(h.val)) ELSE NoInt
C10_RetryAfterCarried ==
    \A t \in Threads :
        (Done(t) /\ Is429(LastResponse(t))) =>
            /\ RaisedError(t, "RateLimitError")
            /\ outcome[t].retry_after = ExpectedRetryAfter(LastResponse(t).headers)

\* C11 (as claimed): for a 200 response the call returns float(p) as a
\* Success exactly when the body is an object whose price p is numeric and
\* p > 0; a missing price, a non-numeric price, a price <= 0 and an
\* unparseable body raise InvalidPriceDataError when use_fallback is False.
NumericPositive(b) ==
    /\ b.kind = "object" /\ b.hasPrice
    /\ b.price.t \in {"int", "float", "bool"}
    /\ b.price.cls # "nan" /\ b.price.v > 0
SuccessWith(t, b) == outcome[t] = Returns(ToFloat(b.price), "success")
C11_SuccessIffNumericPositive ==
    \A t \in Threads :
        (Done(t) /\ Is200(LastResponse(t))) =>
            /\ SuccessWith(t, LastResponse(t).body) <=> NumericPositive(LastResponse(t).body)
            /\ (InvalidPayload(LastResponse(t)) /\ ~use_fallback[t])
                    => RaisedError(t, "InvalidPriceDataError")

\* C12: every response a call has met falls under exactly one rule of the
\* reference classifier (transport failure -> NetworkError; 429 ->
\* RateLimited; 200 -> Success or InvalidPayload; 500..599 -> ServerError;
\* 400..499 except 429 -> ClientError; any other status -> UnexpectedStatus)
\* and the branch the code takes is that one; a response met before the last
\* one was handled as retryable, and a call that ended on a ClientError,
\* UnexpectedStatus, ServerError or NetworkError ended the way of its branch.
Dispositions ==
    {"NetworkError", "RateLimited", "Ok", "ServerError", "ClientError", "UnexpectedStatus"}
RefRule(d, r) ==
    CASE d = "NetworkError" -> r.tag \in {"Timeout", "RequestException"}
      [] d = "RateLimited" -> r.tag = "response" /\ r.status_code = 429
      [] d = "Ok" -> r.tag = "response" /\ r.status_code = 200
      [] d = "ServerError" -> r.tag = "response" /\ r.status_code \in 500..599
      [] d = "ClientError" ->
            r.tag = "response" /\ r.status_code \in 400..499 /\ r.status_code # 429
      [] OTHER ->
            /\ r.tag = "response"
            /\ r.status_code \notin {200, 429}
            /\ r.status_code < 400 \/ r.status_code >= 600
RefDispositions(r) == {d \in Dispositions : RefRule(d, r)}
EndedAsBranch(t, d) ==
    CASE d \in {"NetworkError", "ServerError"} -> RaisedError(t, "RetryExhaustedError")
      [] d = "ClientError" -> outcome[t] = Raises("HyperLiquidAPIError", "Client error")
      [] d = "UnexpectedStatus" ->
            outcome[t] = Raises("HyperLiquidAPIError", "Unexpected status code")
      [] OTHER -> ~RaisedError(t, "RetryExhaustedError") /\ ~RaisedError(t, "HyperLiquidAPIError")
C12_OneDispositionPerAttempt ==
    \A t \in Threads :
        /\ \A i \in 1..Requests(t) :
              /\ RefDispositions(responses[t][i]) = {Branch(responses[t][i])}
              /\ i < Requests(t) => Branch(responses[t][i]) \in {"NetworkError", "ServerError"}
        /\ Done(t) => EndedAsBranch(t, CHOOSE d \in RefDispositions(LastResponse(t)) : TRUE)

C12_Witness ==
    \E t \in Threads :
        /\ Done(t)
        /\ Requests(t) = MAX_RETRIES
        /\ Branch(responses[t][1]) = "NetworkError"
        /\ Branch(responses[t][2]) = "ServerError"
        /\ LastResponse(t).tag = "response" /\ LastResponse(t).status_code = 99
        /\ outcome[t] = Raises("HyperLiquidAPIError", "Unexpected status code")

\* The terminal disposition of a call that ended with an error, read off
\* its last response
TerminalDisposition(t) ==
    CASE Retryable(LastResponse(t)) -> "RetryExhausted"
      [] Is429(LastResponse(t)) -> "RateLimited"
      [] ClientErrorStatus(LastResponse(t)) -> "ClientError"
      [] UnexpectedStatus(LastResponse(t)) -> "UnexpectedStatus"
      [] OTHER -> "InvalidPayload"
Failed(t) == Done(t) /\ outcome[t].kind = "raise"

\* C13 (as claimed): two calls that raise the same kind of error ended on
\* the same terminal disposition.
C13_KindsInjective ==
    \A t, u \in Threads :
        (Failed(t) /\ Failed(u) /\ outcome[t].exc = outcome[u].exc)
            => TerminalDisposition(t) = TerminalDisposition(u)

\* C13 (amended): the kind of error a call raises tells the terminal
\* dispositions apart except ClientError and UnexpectedStatus:
\* RateLimitError is raised only for RateLimited, InvalidPriceDataError only
\* for InvalidPayload, RetryExhaustedError only for RetryExhausted, and the
\* base HyperLiquidAPIError for ClientError and UnexpectedStatus, which
\* differ in the message only.
DispositionOf(e, m) ==
    CASE e = "RateLimitError" -> "RateLimited"
      [] e = "InvalidPriceDataError" -> "InvalidPayload"
      [] e = "RetryExhaustedError" -> "RetryExhausted"
      [] e = "HyperLiquidAPIError" /\ m = "Client error" -> "ClientError"
      [] OTHER -> "UnexpectedStatus"
C13_KindsInjectiveUpToBase ==
    \A t, u \in Threads :
        /\ (Failed(t) /\ outcome[t].exc \in TypedErrors)
              => TerminalDisposition(t) = DispositionOf(outcome[t].exc, outcome[t].msg)
        /\ (Failed(t) /\ Failed(u) /\ outcome[t].exc = outcome[u].exc
                /\ outcome[t].exc \in TypedErrors)
              => \/ TerminalDisposition(t) = TerminalDisposition(u)
                 \/ /\ outcome[t].exc = "HyperLiquidAPIError"
                    /\ outcome[t].msg # outcome[u].msg
                    /\ {TerminalDisposition(t), TerminalDisposition(u)}
                          = {"ClientError", "UnexpectedStatus"}

C13_Witness ==
    /\ Failed("t1") /\ Failed("t2")
    /\ LastResponse("t1") = Http(404, NoHeader, NoBody)
    /\ LastResponse("t2") = Http(302, NoHeader, NoBody)
    /\ outcome["t1"] = Raises("HyperLiquidAPIError", "Client error")
    /\ outcome["t2"] = Raises("HyperLiquidAPIError", "Unexpected status code")

\* C14: the cache is empty at startup; a step changes the entry of a symbol
\* only when it is the Success of a call for that symbol, which stores the
\* price it returns; no entry is removed; a step in which a call ends with
\* an error or with a fallback return leaves the whole cache as it was.
CacheEmpty == \A s \in Symbols : last_known_prices[s] = Absent
SuccessStep(t) ==
    /\ pc[t] = "request" /\ pc'[t] = "done"
    /\ outcome'[t].kind = "return" /\ outcome'[t].via = "success"
EndsOtherwise(t) ==
    /\ pc[t] # "done" /\ pc'[t] = "done"
    /\ outcome'[t].kind = "raise" \/ outcome'[t].via = "fallback"
CacheFrame ==
    /\ \A s \in Symbols :
          last_known_prices'[s] # last_known_prices[s] =>
              /\ last_known_prices'[s] # Absent
              /\ \E t \in Threads :
                    /\ symbol[t] = s
                    /\ SuccessStep(t)
                    /\ last_known_prices'[s] = outcome'[t].value
    /\ \A t \in Threads : EndsOtherwise(t) => last_known_prices' = last_known_prices
C14_CacheChangesOnlyOnSuccess == CacheEmpty /\ [][CacheFrame]_vars

C14_Witness ==
    \E t \in Threads :
        /\ Done(t) /\ outcome[t].via = "fallback"
        /\ symbol[t] = "BTC"
        /\ last_known_prices["BTC"] = PyFloat(2)
        /\ last_known_prices["ETH"] = PyFloat(1)

\* C15 (as claimed): every entry of the cache is a strictly positive float
\* and is the price that the latest Success for that symbol returned.
StrictlyPositive(v) == v.t = "float" /\ v.cls # "nan" /\ v.v > 0
C15_CacheEntriesPositive ==
    \A s \in Symbols :
        last_known_prices[s] # Absent =>
            /\ StrictlyPositive(last_known_prices[s])
            /\ last_known_prices[s] = last_success[s]

\* C16: with calls of several threads interleaved, a step of a call for
\* symbol S changes no entry other than that of S, so a Success for T leaves
\* the entry of S as it was; and a fallback for S returns the price of the
\* latest Success for S.
WritesOnlyOwnSymbol ==
    \A t \in Threads :
        (pc'[t] # pc[t]) =>
            \A s \in Symbols \ {symbol[t]} : last_known_prices'[s] = last_known_prices[s]
FallbackReturnsOwnSymbol ==
    \A t \in Threads :
        (pc[t] = "fallback_read" /\ pc'[t] = "done") =>
            /\ outcome'[t].kind = "return"
            /\ outcome'[t].value = last_success[symbol[t]]
            /\ last_success[symbol[t]] # Absent
C16_NoCrossSymbolInterference ==
    [][WritesOnlyOwnSymbol /\ FallbackReturnsOwnSymbol]_vars

C16_Witness ==
    /\ Done("t1") /\ symbol["t1"] = "BTC" /\ outcome["t1"] = Returns(PyFloat(1), "fallback")
    /\ Done("t2") /\ symbol["t2"] = "ETH" /\ outcome["t2"] = Returns(PyFloat(2), "success")
    /\ Requests("t1") = 1 /\ Requests("t2") = MAX_RETRIES
    /\ last_known_prices = [s \in Symbols |-> IF s = "BTC" THEN PyFloat(1) ELSE PyFloat(2)]

\* C17: with calls for the same symbol interleaved, the entry of a symbol is
\* always the whole price that the latest Success for it returned; when two
\* calls for one symbol have both ended in Success the entry is the price of
\* one of the two; a fallback read returns such a price; and between the
\* membership test and the read of a fallback the entry never disappears,
\* so the read raises no KeyError.
SuccessPrices == {PyFloat(1), PyFloat(2)}
EntryIsLatestSuccess ==
    \A s \in Symbols :
        /\ last_known_prices[s] = last_success[s]
        /\ last_known_prices[s] \in SuccessPrices \cup {Absent}
EntryIsOneOfTwo ==
    \A t, u \in Threads :
        (/\ t # u /\ Done(t) /\ Done(u) /\ symbol[t] = symbol[u]
         /\ outcome[t].via = "success" /\ outcome[u].via = "success")
        => last_known_prices[symbol[t]] \in {outcome[t].value, outcome[u].value}
FallbackReadSafe ==
    \A t \in Threads :
        /\ pc[t] = "fallback_read" => InCache(last_known_prices, symbol[t])
        /\ ~RaisedError(t, "KeyError")
        /\ (Done(t) /\ outcome[t].via = "fallback") => outcome[t].value \in SuccessPrices
C17_AtomicPerSymbol == EntryIsLatestSuccess /\ EntryIsOneOfTwo /\ FallbackReadSafe

C17_Witness ==
    /\ Done("t1") /\ symbol["t1"] = "BTC" /\ outcome["t1"] = Returns(PyFloat(1), "fallback")
    /\ Done("t2") /\ symbol["t2"] = "BTC" /\ outcome["t2"] = Returns(PyFloat(2), "success")
    /\ Requests("t2") = MAX_RETRIES
    /\ last_known_prices["BTC"] = PyFloat(2)
    /\ last_known_prices["ETH"] = Absent

\* C18: the n-th sleep of a call follows its n-th attempt, which was a
\* retryable failure of any kind, and lasts n x 0.5 (5, 10 tenths); there
\* are at most MAX_RETRIES - 1 sleeps; a call about to make a request or
\* sleeping has slept as often as it has made requests (not at all before
\* attempt 1), and a call that has ended has slept once less than it has
\* made requests.
C18_LinearBackoffBetweenAttempts ==
    \A t \in Threads :
        /\ SleepCalls(t) <= MAX_RETRIES - 1
        /\ \A n \in 1..SleepCalls(t) :
              /\ sleeps[t][n] = n * 5
              /\ n <= Requests(t) /\ Retryable(responses[t][n])
        /\ pc[t] \in {"request", "sleeping"} => SleepCalls(t) = Requests(t)
        /\ pc[t] \in {"done", "fallback_read"} => SleepCalls(t) = Requests(t) - 1

C18_Witness ==
    \E t \in Threads :
        /\ Done(t)
        /\ responses[t][1] = Http(500, NoHeader, NoBody)
        /\ responses[t][2] = Raised("Timeout")
        /\ responses[t][3] = Raised("RequestException")
        /\ sleeps[t] = <<5, 10>>

\* C19: the cause of a RetryExhaustedError is the failure of the last, the
\* MAX_RETRIES-th, attempt: the Timeout or RequestException that requests.get
\* raised there, or the server error built for its 5xx response; it is never
\* None and never the failure of an earlier attempt.
CauseClass(r) == IF r.tag = "response" THEN "HyperLiquidAPIError" ELSE r.tag
C19_CauseIsLastFailure ==
    \A t \in Threads :
        RaisedError(t, "RetryExhaustedError") =>
            /\ Requests(t) = MAX_RETRIES
            /\ outcome[t].cause # NoException
            /\ outcome[t].cause.at = Requests(t)
            /\ outcome[t].cause.cls = CauseClass(LastResponse(t))

C19_Witness ==
    \E t \in Threads :
        /\ RaisedError(t, "RetryExhaustedError")
        /\ responses[t][1] = Raised("Timeout")
        /\ responses[t][2] = Raised("RequestException")
        /\ responses[t][3] = Http(500, NoHeader, NoBody)
        /\ outcome[t].cause = Exception("HyperLiquidAPIError", MAX_RETRIES)

\* C20: a call makes at most MAX_RETRIES requests and has made at least one
\* when it ends; every attempt before the latest one was a ServerError or a
\* NetworkError; and, when every request and every sleep completes, a call
\* that has been entered reaches its end, a return or a raise.
BoundedAttempts ==
    \A t \in Threads :
        /\ Requests(t) <= MAX_RETRIES
        /\ RetryableBefore(t, Requests(t))
        /\ Done(t) => /\ Requests(t) >= 1
                      /\ outcome[t].kind \in {"return", "raise"}
Running(t) == pc[t] \in {"request", "sleeping", "fallback_read"}
C20_EveryCallTerminates ==
    /\ []BoundedAttempts
    /\ \A t \in Threads : Running(t) ~> Done(t)

C20_Witness ==
    \E t \in Threads :
        /\ Done(t)
        /\ Requests(t) = MAX_RETRIES
        /\ RetryableBefore(t, MAX_RETRIES)
        /\ LastResponse(t) = Http(200, NoHeader, EmptyObject)
        /\ use_fallback[t]
        /\ outcome[t].via = "fallback"
====
